---- MODULE Spec2Model ----
(***************************************************************************)
(* A model of the GardienAI backend (src/app.py): seven Flask routes that   *)
(* proxy two upstream HTTP services (an image classifier and the weather    *)
(* provider), apply fixed if/else rules to the weather reading, look plants *)
(* up in a static catalog and persist journal entries below                 *)
(* journal_entries/<timestamp>/.                                            *)
(*                                                                          *)
(* Python strings that the code inspects (lower(), "rain" in ...) are       *)
(* sequences of one-character strings; texts that are only echoed are TLA+  *)
(* strings.  The tip texts are the source's ASCII text without the leading  *)
(* emoji.  Temperatures are whole degrees Celsius.                          *)
(***************************************************************************)
EXTENDS Integers, Sequences, FiniteSets, TLC

\* ------------------------------------------------------------------ bounds

\* Longest description generated exhaustively over Alphabet.
MaxDescLen == 4
\* Longest journal note (notes are sequences over NoteChars).
MaxNoteLen == 2
\* Last instant of the wall clock, in ticks.
MaxTick == 3
\* Clock ticks per second: instants that the second-granularity timestamp
\* does not tell apart.
TicksPerSecond == 2

\* ----------------------------------------------------------------- strings

UpperLetters ==
  <<"A","B","C","D","E","F","G","H","I","J","K","L","M",
    "N","O","P","Q","R","S","T","U","V","W","X","Y","Z">>

LowerLetters ==
  <<"a","b","c","d","e","f","g","h","i","j","k","l","m",
    "n","o","p","q","r","s","t","u","v","w","x","y","z">>

\* str.lower() on one character: an upper-case letter maps to its lower-case
\* letter, every other character to itself.
LowerChar(c) ==
  IF \E i \in 1..26 : UpperLetters[i] = c
  THEN LowerLetters[CHOOSE i \in 1..26 : UpperLetters[i] = c]
  ELSE c

\* str.lower()
Lower(s) == [i \in 1..Len(s) |-> LowerChar(s[i])]

\* `sub in s` for Python strings: sub occurs as a contiguous slice of s.
Contains(sub, s) ==
  \E k \in 0..(Len(s) - Len(sub)) :
    \A j \in 1..Len(sub) : s[k + j] = sub[j]

RAIN == <<"r","a","i","n">>

\* Mutant: the keyword is looked for in the text as sent, without lower().
MentionsRainExact(desc) == Contains(RAIN, desc)

\* "rain" in weather.lower()
MentionsRain(desc) == Contains(RAIN, Lower(desc))

\* All sequences over set A of length at most n.
SeqsUpTo(A, n) == UNION { [1..k -> A] : k \in 0..n }

\* -------------------------------------------------- advisory rules (tips)

TipWaterToday == "It's dry and warm. Water your plants today!"
TipHoldOff == "It's very humid. Hold off on watering."
TipRainy == "It's rainy. No need to water today."
TipCheckSoil == "Check soil moisture before watering."

\* Mutant: the rain branch is tested before the two humidity branches.
WateringTipRainFirst(temp, humidity, weather) ==
  IF MentionsRain(weather) THEN TipRainy
  ELSE IF humidity < 50 /\ temp > 20 THEN TipWaterToday
  ELSE IF humidity > 80 THEN TipHoldOff
  ELSE TipCheckSoil

\* watering_alert's if/elif/else chain: the first condition that holds decides.
WateringTip(temp, humidity, weather) ==
  IF humidity < 50 /\ temp > 20 THEN TipWaterToday
  ELSE IF humidity > 80 THEN TipHoldOff
  ELSE IF MentionsRain(weather) THEN TipRainy
  ELSE TipCheckSoil

TipHot == "It's hot! Water your plants early morning or late evening."
TipCold == "Cold alert! Protect your plants from frost."
TipNormal == "Normal weather. Water as usual."
TipRaining == "It's raining. Reduce watering."
TipHumid == "High humidity. Improve ventilation to avoid fungal diseases."

\* Mutant: the heat band starts at 30 instead of above it.
TemperatureTipInclusive(temperature) ==
  IF temperature >= 30 THEN TipHot
  ELSE IF temperature < 10 THEN TipCold
  ELSE TipNormal

\* The temperature band of get_weather: if / elif / else.
TemperatureTip(temperature) ==
  IF temperature > 30 THEN TipHot
  ELSE IF temperature < 10 THEN TipCold
  ELSE TipNormal

\* Mutant: the humidity rule runs before the description rule.
WeatherTipsHumidityFirst(temperature, weather_desc, humidity) ==
  LET banded == <<TemperatureTip(temperature)>>
      humid == IF humidity > 80 THEN Append(banded, TipHumid) ELSE banded
  IN  IF MentionsRain(weather_desc) THEN Append(humid, TipRaining) ELSE humid

\* Mutant: the humidity rule is an elif of the description rule.
WeatherTipsElif(temperature, weather_desc, humidity) ==
  LET banded == <<TemperatureTip(temperature)>>
  IN  IF MentionsRain(weather_desc) THEN Append(banded, TipRaining)
      ELSE IF humidity > 80 THEN Append(banded, TipHumid)
      ELSE banded

\* get_weather's tips list: the band tip, then two independent ifs, each
\* appending at the end of the list.
WeatherTips(temperature, weather_desc, humidity) ==
  LET banded == <<TemperatureTip(temperature)>>
      rained == IF MentionsRain(weather_desc)
                THEN Append(banded, TipRaining) ELSE banded
  IN  IF humidity > 80 THEN Append(rained, TipHumid) ELSE rained

CACTUS == <<"c","a","c","t","u","s">>
FERN == <<"f","e","r","n">>

TipCactus == "Minimal watering needed. Great for dry conditions."
TipCactusHumid == "Reduce watering. Humidity is high."
TipFern == "Keep soil moist. Foliage loves humidity."
TipFernDry == "Mist your plant to maintain moisture."
TipOther == "Water when top soil is dry."
TipOtherCold == "Keep your plant away from cold drafts."

\* Mutant: plant_type is compared as sent, without lower().
CareSuggestionsExactCase(plant_type, temperature, humidity) ==
  IF plant_type = CACTUS
  THEN IF humidity > 70 THEN <<TipCactus, TipCactusHumid>> ELSE <<TipCactus>>
  ELSE IF plant_type = FERN
  THEN IF humidity < 50 THEN <<TipFern, TipFernDry>> ELSE <<TipFern>>
  ELSE IF temperature < 10 THEN <<TipOther, TipOtherCold>> ELSE <<TipOther>>

\* daily_care's care_suggestions list.
CareSuggestions(plant_type, temperature, humidity) ==
  IF Lower(plant_type) = CACTUS
  THEN IF humidity > 70 THEN <<TipCactus, TipCactusHumid>> ELSE <<TipCactus>>
  ELSE IF Lower(plant_type) = FERN
  THEN IF humidity < 50 THEN <<TipFern, TipFernDry>> ELSE <<TipFern>>
  ELSE IF temperature < 10 THEN <<TipOther, TipOtherCold>> ELSE <<TipOther>>

\* ------------------------------------------------------------ plant catalog

LOW_LIGHT == <<"l","o","w"," ","l","i","g","h","t">>
BRIGHT_LIGHT == <<"b","r","i","g","h","t"," ","l","i","g","h","t">>
HUMID == <<"h","u","m","i","d">>
LOW_MAINTENANCE == <<"l","o","w"," ","m","a","i","n","t","e","n","a","n","c","e">>
AIR_PURIFYING == <<"a","i","r"," ","p","u","r","i","f","y","i","n","g">>
FLOWERING == <<"f","l","o","w","e","r","i","n","g">>
TROPICAL == <<"t","r","o","p","i","c","a","l">>
COLORFUL == <<"c","o","l","o","r","f","u","l">>

\* plant_database: environment -> preference -> ordered plant names.
plant_database ==
  (LOW_LIGHT :> ((LOW_MAINTENANCE :> <<"Snake Plant", "ZZ Plant", "Pothos">>)
                 @@ (AIR_PURIFYING :> <<"Peace Lily", "Spider Plant">>)))
  @@ (BRIGHT_LIGHT :> ((FLOWERING :> <<"African Violet", "Orchid">>)
                       @@ (LOW_MAINTENANCE :> <<"Succulent", "Aloe Vera">>)))
  @@ (HUMID :> ((TROPICAL :> <<"Fern", "Calathea">>)
                @@ (COLORFUL :> <<"Croton", "Bromeliad">>)))

\* dict.get(key, default)
DictGet(d, key, default) == IF key \in DOMAIN d THEN d[key] ELSE default

\* plant_database.get(environment, {}).get(preference, [])
Recommended(environment, preference) ==
  DictGet(DictGet(plant_database, environment, <<>>), preference, <<>>)

\* ------------------------------------------------- values and HTTP messages

\* Python values the handlers test: None and str.
PyNone == [t |-> "None"]
PyStr(s) == [t |-> "str", s |-> s]

\* `not v` for None and str.
Falsy(v) == v = PyNone \/ v.s = <<>>

\* An exception: its class and str(e).
Exc(type, msg) == [type |-> type, msg |-> msg]
NoExc == [type |-> "none"]

\* The first exception raised by a sequence of evaluations.
FirstExc(es) ==
  IF \E i \in 1..Len(es) : es[i] # NoExc
  THEN es[CHOOSE i \in 1..Len(es) :
            es[i] # NoExc /\ \A j \in 1..(i - 1) : es[j] = NoExc]
  ELSE NoExc

\* A handler's outcome: jsonify(body) with a status, or an exception leaving
\* the handler uncaught.
Json(status, body) == [kind |-> "json", status |-> status, body |-> body]
Uncaught(e) == [kind |-> "exception", exc |-> e]
NoResp == [kind |-> "none"]

\* What an upstream call did: raised, or answered with a status and a body that
\* is JSON (data) or not.
Raised == [kind |-> "raise", exc |-> Exc("ConnectionError", "connection failed")]
NonJson(status) == [kind |-> "response", status |-> status, isjson |-> FALSE]
JsonResp(status, data) ==
  [kind |-> "response", status |-> status, isjson |-> TRUE, data |-> data]
NoCall == [kind |-> "none"]

JSONDecodeError == Exc("JSONDecodeError", "Expecting value: line 1 column 1 (char 0)")
NoneLower == Exc("AttributeError", "'NoneType' object has no attribute 'lower'")

\* A handler's result: the upstream call it made (NoCall: none) and its outcome.
Result(u, r) == [up |-> u, resp |-> r]

\* ------------------------------------------------------- weather normalizing

\* data["main"]["temp"]
TempExc(data) ==
  IF "main" \notin DOMAIN data THEN Exc("KeyError", "'main'")
  ELSE IF "temp" \notin DOMAIN data.main THEN Exc("KeyError", "'temp'")
  ELSE NoExc

\* data["main"]["humidity"]
HumidityExc(data) ==
  IF "main" \notin DOMAIN data THEN Exc("KeyError", "'main'")
  ELSE IF "humidity" \notin DOMAIN data.main THEN Exc("KeyError", "'humidity'")
  ELSE NoExc

\* data["weather"][0]["description"]
DescriptionExc(data) ==
  IF "weather" \notin DOMAIN data THEN Exc("KeyError", "'weather'")
  ELSE IF Len(data.weather) = 0 THEN Exc("IndexError", "list index out of range")
  ELSE IF "description" \notin DOMAIN data.weather[1]
       THEN Exc("KeyError", "'description'")
  ELSE NoExc

\* ------------------------------------------------------------------ handlers

\* home()
home == Result(NoCall, Json(200, [message |-> "GardienAI Backend is Running"]))

\* response.json()[0]['label'] of predict
LabelExc(u) ==
  IF ~u.isjson THEN JSONDecodeError
  ELSE IF u.data.t = "dict" THEN Exc("KeyError", "0")
  ELSE IF Len(u.data.items) = 0 THEN Exc("IndexError", "list index out of range")
  ELSE IF "label" \notin DOMAIN u.data.items[1] THEN Exc("KeyError", "'label'")
  ELSE NoExc

\* predict(): files is request.files, u what requests.post does.
predict(files, u) ==
  IF "image" \notin DOMAIN files
  THEN Result(NoCall, Json(200, [error |-> "No image file provided"]))
  ELSE LET e == IF u.kind = "raise" THEN u.exc ELSE LabelExc(u)
       IN  IF e # NoExc
           THEN Result(u, Json(200, [error |-> "Prediction failed", details |-> e.msg]))
           ELSE Result(u, Json(200, [prediction |-> u.data.items[1].label]))

\* watering_alert(): args is request.args, key whether OPENWEATHER_API_KEY is
\* set, u what requests.get does.
watering_alert(args, key, u) ==
  IF ~key
  THEN Result(NoCall, Json(200, [error |-> "Missing OpenWeather API key."]))
  ELSE LET e == IF u.kind = "raise" THEN u.exc
                ELSE IF ~u.isjson THEN JSONDecodeError
                ELSE FirstExc(<<TempExc(u.data), HumidityExc(u.data),
                                DescriptionExc(u.data)>>)
       IN  IF e # NoExc
           THEN Result(u, Json(200, [error |-> "Failed to get weather data",
                                     details |-> e.msg]))
           ELSE LET temp == u.data.main.temp
                    humidity == u.data.main.humidity
                    weather == u.data.weather[1].description
                IN  Result(u, Json(200,
                      [temperature |-> temp, humidity |-> humidity,
                       weather |-> weather,
                       watering_tip |-> WateringTip(temp, humidity, weather)]))

\* Mutant: only a missing or null field is rejected, an empty string passes.
CareInputMissingNoneOnly(data) ==
  DictGet(data, "city", PyNone) = PyNone \/ DictGet(data, "plant_type", PyNone) = PyNone

\* daily_care, lines 79-82: not city or not plant_type
CareInputMissing(data) ==
  Falsy(DictGet(data, "city", PyNone)) \/ Falsy(DictGet(data, "plant_type", PyNone))

\* daily_care(): data is request.get_json(), u what requests.get does.  Nothing
\* in the handler catches an exception.
daily_care(data, u) ==
  LET city == DictGet(data, "city", PyNone)
      plant_type == DictGet(data, "plant_type", PyNone)
  IN  IF CareInputMissing(data)
      THEN Result(NoCall, Json(200, [error |-> "City and plant type are required."]))
      ELSE IF u.kind = "raise" THEN Result(u, Uncaught(u.exc))
      ELSE IF ~u.isjson THEN Result(u, Uncaught(JSONDecodeError))
      ELSE IF u.status # 200
      THEN Result(u, Json(200, [error |-> "Failed to fetch weather data."]))
      ELSE LET e == FirstExc(<<TempExc(u.data), HumidityExc(u.data),
                               DescriptionExc(u.data)>>)
           IN  IF e # NoExc THEN Result(u, Uncaught(e))
               ELSE LET temperature == u.data.main.temp
                        humidity == u.data.main.humidity
                    IN  Result(u, Json(200,
                          [plant |-> plant_type.s, city |-> city.s,
                           temperature |-> temperature, humidity |-> humidity,
                           weather |-> u.data.weather[1].description,
                           care_suggestions |->
                             CareSuggestions(plant_type.s, temperature, humidity)]))

\* get_weather(): as watering_alert, with the status check inside the try.
get_weather(args, key, u) ==
  IF ~key
  THEN Result(NoCall, Json(200, [error |-> "OpenWeather API key is missing in .env"]))
  ELSE LET early == IF u.kind = "raise" THEN u.exc
                    ELSE IF ~u.isjson THEN JSONDecodeError
                    ELSE NoExc
       IN  IF early # NoExc
           THEN Result(u, Json(200, [error |-> "Weather fetch failed",
                                     details |-> early.msg]))
           ELSE IF u.status # 200
           THEN Result(u, Json(200,
                  [error |-> DictGet(u.data, "message", "Unable to fetch weather")]))
           ELSE LET e == FirstExc(<<TempExc(u.data), DescriptionExc(u.data),
                                    HumidityExc(u.data)>>)
                IN  IF e # NoExc
                    THEN Result(u, Json(200, [error |-> "Weather fetch failed",
                                              details |-> e.msg]))
                    ELSE LET temperature == u.data.main.temp
                             weather_desc == u.data.weather[1].description
                             humidity == u.data.main.humidity
                         IN  Result(u, Json(200,
                               [temperature |-> temperature,
                                description |-> weather_desc,
                                humidity |-> humidity,
                                tips |-> WeatherTips(temperature, weather_desc,
                                                     humidity)]))

\* plant_selector(): data is request.get_json(); .lower() is called on whatever
\* data.get returns, outside any try.
plant_selector(data) ==
  LET env == DictGet(data, "environment", PyStr(<<>>))
      pref == DictGet(data, "preference", PyStr(<<>>))
  IN  IF env = PyNone \/ pref = PyNone
      THEN Result(NoCall, Uncaught(NoneLower))
      ELSE LET environment == Lower(env.s)
               preference == Lower(pref.s)
           IN  Result(NoCall, Json(200,
                 [environment |-> environment, preference |-> preference,
                  recommended_plants |-> Recommended(environment, preference)]))

\* ------------------------------------------------------------- plant journal

\* datetime.datetime.now().strftime("%Y%m%d-%H%M%S"): the instant cut to its
\* second.
Timestamp(instant) == instant \div TicksPerSecond

Seconds == 0..(MaxTick \div TicksPerSecond)

\* A directory journal_entries/<timestamp>: absent, or a dict of files.
NoDir == [exists |-> FALSE]
Dir(files) == [exists |-> TRUE, files |-> files]

\* os.makedirs(entry_folder, exist_ok=True)
Makedirs(disk, t) ==
  IF disk[t].exists THEN disk ELSE [disk EXCEPT ![t] = Dir(<<>>)]

\* open(path, "w"): the file is created or cut to length 0.
OpenTruncate(disk, t, name) ==
  [disk EXCEPT ![t] = Dir((name :> <<>>) @@ disk[t].files)]

\* Mutant: the file is opened for appending, the bytes go to its end.
WriteAppend(old, data) == old \o data

\* write(2) of data at offset 0 through a descriptor of its own: the bytes
\* replace the head of the file, what lies beyond them stays.
WriteAtStart(old, data) == data \o SubSeq(old, Len(data) + 1, Len(old))

\* The buffered f.write(note), flushed when the with block closes the file:
\* a note below the writer's buffer size reaches the file in this one write.
FlushNote(disk, t, name, data) ==
  [disk EXCEPT ![t] =
     Dir((name :> WriteAtStart(DictGet(disk[t].files, name, <<>>), data))
         @@ disk[t].files)]

\* image_file.save(os.path.join(entry_folder, image_file.filename))
SaveImage(disk, t, image) ==
  [disk EXCEPT ![t] = Dir((image.filename :> image.bytes) @@ disk[t].files)]

\* ------------------------------------------------------------------- inputs

Temperatures == {9, 10, 20, 21, 30, 31}
Humidities == {49, 50, 70, 71, 75, 80, 81}

\* Generated exhaustively: every text over these letters up to MaxDescLen.
Alphabet == {"r", "a", "i", "n"}

\* Texts in other letter cases and with other characters around the keyword.
SampleDescriptions ==
  { <<"R","a","i","n">>,
    <<"r","A","i","N">>,
    <<"L","I","G","H","T"," ","R","A","I","N">>,
    <<"l","i","g","h","t"," ","r","a","i","n">>,
    <<"d","r","a","i","n">>,
    <<"D","r","a","I","n","s">>,
    <<"r","a","i"," ","n">>,
    <<"R","A","N">>,
    <<"c","l","e","a","r"," ","s","k","y">> }

Descriptions == SeqsUpTo(Alphabet, MaxDescLen) \cup SampleDescriptions

\* A payload of the weather provider carrying a whole reading.
Reading(t, h, d) ==
  [main |-> [temp |-> t, humidity |-> h], weather |-> <<[description |-> d]>>]

Readings ==
  { Reading(t, h, d) : t \in Temperatures, h \in Humidities, d \in Descriptions }

\* Payloads with status 200 that lack a required field.
BrokenReadings ==
  LET d == <<"r","a","i","n">>
  IN  { [weather |-> <<[description |-> d]>>],
        [main |-> [humidity |-> 81], weather |-> <<[description |-> d]>>],
        [main |-> [temp |-> 31], weather |-> <<[description |-> d]>>],
        [main |-> [temp |-> 31, humidity |-> 81]],
        [main |-> [temp |-> 31, humidity |-> 81], weather |-> <<>>],
        [main |-> [temp |-> 31, humidity |-> 81], weather |-> <<[id |-> 500]>>] }

\* What the provider sends with a non-success status.
ErrorPayloads == { [cod |-> "404", message |-> "city not found"], [cod |-> "500"] }

\* What requests.get on the weather URL can do.  Without an API key the
\* provider never answers with success; a non-success answer never carries a
\* reading.
WeatherOutcomes(key) ==
  {Raised, NonJson(502)}
  \cup { JsonResp(st, e) : st \in {401, 404}, e \in ErrorPayloads }
  \cup (IF key
        THEN {NonJson(200)} \cup { JsonResp(200, d) : d \in Readings \cup BrokenReadings }
        ELSE {})

\* What requests.post on the classifier URL can do.
ClassifierOutcomes ==
  { Raised, NonJson(503),
    JsonResp(200, [t |-> "list", items |-> <<[label |-> "Tomato___Late_blight"]>>]),
    JsonResp(200, [t |-> "list", items |-> <<[score |-> "0.9"]>>]),
    JsonResp(200, [t |-> "list", items |-> <<>>]),
    JsonResp(503, [t |-> "dict", d |-> [error |-> "Model is loading"]]) }

\* request.args of /watering-alert and /weather.
CityArgs == { <<>>, [city |-> "Paris"] }

\* An uploaded image; its filename is a plain name other than note.txt.
Images == { [filename |-> "leaf.png", bytes |-> <<"P","N","G">>] }
Uploads == { <<>> } \cup { [image |-> i] : i \in Images }

\* The JSON objects a client sends as a body: each key absent, null or a
\* string.
JsonObjects(keys, strings) ==
  UNION { [K -> {PyNone} \cup { PyStr(x) : x \in strings }] : K \in SUBSET keys }

PARIS == <<"P","a","r","i","s">>

PlantTypes ==
  { <<>>, CACTUS, <<"C","a","c","t","u","s">>, FERN, <<"F","E","R","N">>,
    <<"r","o","s","e">> }

\* Bodies of /daily-care.
CareBodies ==
  { b \in JsonObjects({"city", "plant_type"}, {<<>>, PARIS} \cup PlantTypes) :
      /\ "city" \in DOMAIN b => b["city"] \in {PyNone, PyStr(<<>>), PyStr(PARIS)}
      /\ "plant_type" \in DOMAIN b =>
           b["plant_type"] \in {PyNone} \cup { PyStr(x) : x \in PlantTypes } }

SelectorStrings ==
  { <<>>, LOW_LIGHT, <<"L","O","W"," ","L","I","G","H","T">>, HUMID,
    <<"H","u","m","i","d">>, BRIGHT_LIGHT, LOW_MAINTENANCE,
    <<"L","o","w"," ","M","a","i","n","t","e","n","a","n","c","e">>,
    TROPICAL, AIR_PURIFYING, FLOWERING, COLORFUL,
    <<"s","h","a","d","e">> }

\* Bodies of /plant-selector.
SelectorBodies == JsonObjects({"environment", "preference"}, SelectorStrings)

NoteChars == {"a", "b"}
Notes == SeqsUpTo(NoteChars, MaxNoteLen)

\* request.form of /plant-journal.
JournalForms == { <<>> } \cup { [note |-> PyStr(n)] : n \in Notes }

\* --------------------------------------------------------------------- state

\* Requests in flight, each handled by a thread of its own.
Slots == {1, 2}

VARIABLES
  apiKey,   \* whether OPENWEATHER_API_KEY is set in the environment
  now,      \* the wall clock, in ticks
  fs,       \* journal_entries/: second -> directory
  pc,       \* slot -> where its handler stands
  req,      \* slot -> the request
  up,       \* slot -> the upstream call the handler made
  ts,       \* slot -> plant_journal's timestamp
  resp      \* slot -> the handler's outcome

vars == <<apiKey, now, fs, pc, req, up, ts, resp>>

NoReq == [route |-> "none"]

Init ==
  /\ apiKey \in BOOLEAN
  /\ now = 0
  /\ fs = [t \in Seconds |-> NoDir]
  /\ pc = [r \in Slots |-> "idle"]
  /\ req = [r \in Slots |-> NoReq]
  /\ up = [r \in Slots |-> NoCall]
  /\ ts = [r \in Slots |-> 0]
  /\ resp = [r \in Slots |-> NoResp]

\* A handler that runs from the request to its outcome without touching the
\* journal.
Handle(r, rq, result) ==
  /\ req' = [req EXCEPT ![r] = rq]
  /\ up' = [up EXCEPT ![r] = result.up]
  /\ resp' = [resp EXCEPT ![r] = result.resp]
  /\ pc' = [pc EXCEPT ![r] = "done"]
  /\ UNCHANGED <<apiKey, now, fs, ts>>

Home(r) ==
  /\ pc[r] = "idle"
  /\ Handle(r, [route |-> "/"], home)

Predict(r) ==
  /\ pc[r] = "idle"
  /\ \E files \in Uploads, u \in ClassifierOutcomes :
      Handle(r, [route |-> "/predict", files |-> files], predict(files, u))

WateringAlert(r) ==
  /\ pc[r] = "idle"
  /\ \E args \in CityArgs, u \in WeatherOutcomes(apiKey) :
      Handle(r, [route |-> "/watering-alert", args |-> args],
           watering_alert(args, apiKey, u))

DailyCare(r) ==
  /\ pc[r] = "idle"
  /\ \E data \in CareBodies :
       \E u \in IF CareInputMissing(data) THEN {NoCall} ELSE WeatherOutcomes(apiKey) :
      Handle(r, [route |-> "/daily-care", json |-> data], daily_care(data, u))

GetWeather(r) ==
  /\ pc[r] = "idle"
  /\ \E args \in CityArgs, u \in WeatherOutcomes(apiKey) :
      Handle(r, [route |-> "/weather", args |-> args], get_weather(args, apiKey, u))

PlantSelector(r) ==
  /\ pc[r] = "idle"
  /\ \E data \in SelectorBodies :
      Handle(r, [route |-> "/plant-selector", json |-> data], plant_selector(data))

\* plant_journal, lines 172-176: read the form and reject a missing note.
JournalBegin(r) ==
  /\ pc[r] = "idle"
  /\ \E form \in JournalForms, files \in Uploads :
       /\ req' = [req EXCEPT ![r] =
                    [route |-> "/plant-journal", form |-> form, files |-> files]]
       /\ IF Falsy(DictGet(form, "note", PyNone))
          THEN /\ resp' = [resp EXCEPT ![r] =
                             Json(400, [error |-> "Note text is required"])]
               /\ pc' = [pc EXCEPT ![r] = "done"]
          ELSE /\ resp' = resp
               /\ pc' = [pc EXCEPT ![r] = "stamp"]
  /\ UNCHANGED <<apiKey, now, fs, up, ts>>

\* lines 178-179: the timestamp names the entry folder.
JournalStamp(r) ==
  /\ pc[r] = "stamp"
  /\ ts' = [ts EXCEPT ![r] = Timestamp(now)]
  /\ pc' = [pc EXCEPT ![r] = "makedirs"]
  /\ UNCHANGED <<apiKey, now, fs, req, up, resp>>

\* line 180
JournalMakedirs(r) ==
  /\ pc[r] = "makedirs"
  /\ fs' = Makedirs(fs, ts[r])
  /\ pc' = [pc EXCEPT ![r] = "open"]
  /\ UNCHANGED <<apiKey, now, req, up, ts, resp>>

\* line 183
JournalOpen(r) ==
  /\ pc[r] = "open"
  /\ fs' = OpenTruncate(fs, ts[r], "note.txt")
  /\ pc' = [pc EXCEPT ![r] = "write"]
  /\ UNCHANGED <<apiKey, now, req, up, ts, resp>>

\* line 184 and the end of the with block
JournalWrite(r) ==
  /\ pc[r] = "write"
  /\ fs' = FlushNote(fs, ts[r], "note.txt", req[r].form.note.s)
  /\ pc' = [pc EXCEPT ![r] = "finish"]
  /\ UNCHANGED <<apiKey, now, req, up, ts, resp>>

\* lines 187-195: save the image if there is one, and answer.
JournalFinish(r) ==
  /\ pc[r] = "finish"
  /\ fs' = IF "image" \in DOMAIN req[r].files
           THEN SaveImage(fs, ts[r], req[r].files.image)
           ELSE fs
  /\ resp' = [resp EXCEPT ![r] =
                Json(200, [message |-> "Journal entry saved successfully",
                           timestamp |-> ts[r],
                           image_saved |-> "image" \in DOMAIN req[r].files])]
  /\ pc' = [pc EXCEPT ![r] = "done"]
  /\ UNCHANGED <<apiKey, now, req, up, ts>>

PlantJournal(r) ==
  \/ JournalBegin(r)
  \/ JournalStamp(r)
  \/ JournalMakedirs(r)
  \/ JournalOpen(r)
  \/ JournalWrite(r)
  \/ JournalFinish(r)

\* Time passes.
Tick ==
  /\ now < MaxTick
  /\ now' = now + 1
  /\ UNCHANGED <<apiKey, fs, pc, req, up, ts, resp>>

\* One request, of any route, handled from arrival to its outcome.
Next ==
  \/ Home(1)
  \/ Predict(1)
  \/ WateringAlert(1)
  \/ DailyCare(1)
  \/ GetWeather(1)
  \/ PlantSelector(1)
  \/ PlantJournal(1)

Spec == Init /\ [][Next]_vars

\* Journal requests handled concurrently, one thread per slot, while time
\* passes.
JournalNext ==
  \/ Tick
  \/ \E r \in Slots : PlantJournal(r)

JournalSpec == Init /\ [][JournalNext]_vars

\* ------------------------------------------------------------------- claims

\* The request in slot r has been answered (or its handler has crashed).
Done(r) == pc[r] = "done"

\* The upstream call of slot r delivered a whole weather reading.
Delivered(r) ==
  /\ up[r].kind = "response"
  /\ up[r].isjson
  /\ up[r].status = 200
  /\ "main" \in DOMAIN up[r].data
  /\ "weather" \in DOMAIN up[r].data
  /\ {"temp", "humidity"} \subseteq DOMAIN up[r].data.main
  /\ Len(up[r].data.weather) > 0
  /\ "description" \in DOMAIN up[r].data.weather[1]

\* The reading delivered to slot r.
T(r) == up[r].data.main.temp
H(r) == up[r].data.main.humidity
D(r) == up[r].data.weather[1].description

\* The text holds r, a, i, n in a row, each letter in either case.
SaysRain(d) ==
  \E k \in 0..(Len(d) - 4) :
    /\ d[k + 1] \in {"r", "R"}
    /\ d[k + 2] \in {"a", "A"}
    /\ d[k + 3] \in {"i", "I"}
    /\ d[k + 4] \in {"n", "N"}

\* x is an element of the list.
In(x, list) == \E i \in 1..Len(list) : list[i] = x

\* The place of x in the list (0 when absent).
Place(x, list) ==
  IF In(x, list) THEN CHOOSE i \in 1..Len(list) : list[i] = x ELSE 0

\* A /weather request answered with advice.
Advised(r) == req[r].route = "/weather" /\ Done(r) /\ Delivered(r)

\* C1: the tips of /weather hold exactly one of the three temperature tips:
\* the heat tip above 30, the frost tip below 10, "water as usual" from 10 to
\* 30 inclusive; above 30 the frost tip is never there.
C1_OneTemperatureTip ==
  \A r \in Slots :
    Advised(r) =>
      LET tips == resp[r].body.tips
          band == IF T(r) > 30 THEN TipHot
                  ELSE IF T(r) < 10 THEN TipCold ELSE TipNormal
      IN  /\ Cardinality({ i \in 1..Len(tips) :
                             tips[i] \in {TipHot, TipCold, TipNormal} }) = 1
          /\ In(band, tips)
          /\ T(r) > 30 => In(TipHot, tips) /\ ~In(TipCold, tips)
          /\ T(r) \in {10, 30} => In(TipNormal, tips)

C1_Witness ==
  \E r \in Slots :
    /\ Advised(r)
    /\ T(r) > 30
    /\ In(TipHot, resp[r].body.tips)

\* A /watering-alert request answered with advice.
Alerted(r) == req[r].route = "/watering-alert" /\ Done(r) /\ Delivered(r)

\* C2: the watering_tip of /watering-alert is the tip of the first of these
\* that holds: humidity < 50 and temperature > 20 (water today), humidity > 80
\* (hold off), the description says rain (no need to water), none (check soil).
C2_FirstMatchWins ==
  \A r \in Slots :
    Alerted(r) =>
      LET tip == resp[r].body.watering_tip
          dry == H(r) < 50 /\ T(r) > 20
          humid == H(r) > 80
          rain == SaysRain(D(r))
      IN  /\ dry => tip = TipWaterToday
          /\ ~dry /\ humid => tip = TipHoldOff
          /\ ~dry /\ ~humid /\ rain => tip = TipRainy
          /\ ~dry /\ ~humid /\ ~rain => tip = TipCheckSoil

C2_Witness ==
  \E r \in Slots :
    /\ Alerted(r)
    /\ SaysRain(D(r)) /\ H(r) < 50 /\ T(r) > 20
    /\ resp[r].body.watering_tip = TipWaterToday

\* C3 as stated: with both the humidity tip and the rain tip in the list, the
\* temperature tip is first, the humidity tip next, the rain tip after it.
C3_HumidityBeforeRain ==
  \A r \in Slots :
    Advised(r) /\ In(TipHumid, resp[r].body.tips) /\ In(TipRaining, resp[r].body.tips) =>
      LET tips == resp[r].body.tips
      IN  /\ tips[1] \in {TipHot, TipCold, TipNormal}
          /\ Place(TipHumid, tips) = 2
          /\ Place(TipRaining, tips) > Place(TipHumid, tips)

\* C3 as amended: with both tips in the list, the temperature tip is first,
\* the rain tip second and the humidity tip third.
C3_RainBeforeHumidity ==
  \A r \in Slots :
    Advised(r) /\ In(TipHumid, resp[r].body.tips) /\ In(TipRaining, resp[r].body.tips) =>
      LET tips == resp[r].body.tips
      IN  /\ Len(tips) = 3
          /\ tips[1] \in {TipHot, TipCold, TipNormal}
          /\ tips[2] = TipRaining
          /\ tips[3] = TipHumid

C3_Witness ==
  \E r \in Slots :
    /\ Advised(r)
    /\ SaysRain(D(r)) /\ H(r) > 80
    /\ Place(TipRaining, resp[r].body.tips) = 2
    /\ Place(TipHumid, resp[r].body.tips) = 3

\* C4: for a delivered reading /watering-alert answers with one tip, and
\* /weather with one to three tips, three exactly when the description says
\* rain and humidity is above 80.
C4_TipCounts ==
  \A r \in Slots :
    /\ Alerted(r) =>
         /\ resp[r].kind = "json"
         /\ resp[r].body.watering_tip \in
              {TipWaterToday, TipHoldOff, TipRainy, TipCheckSoil}
    /\ Advised(r) =>
         /\ resp[r].kind = "json"
         /\ Len(resp[r].body.tips) \in 1..3
         /\ Len(resp[r].body.tips) = 3 <=> (SaysRain(D(r)) /\ H(r) > 80)

C4_Witness ==
  \E r \in Slots :
    /\ Advised(r)
    /\ Len(resp[r].body.tips) = 3

\* C5: the reduce-watering tip is in the tips of /weather exactly when the
\* description says rain in some letter case, at every temperature and humidity.
C5_RainTip ==
  \A r \in Slots :
    Advised(r) => (In(TipRaining, resp[r].body.tips) <=> SaysRain(D(r)))

C5_Witness ==
  \E r \in Slots :
    /\ Advised(r)
    /\ D(r) = <<"L","I","G","H","T"," ","R","A","I","N">>
    /\ T(r) < 10 /\ H(r) < 50
    /\ In(TipRaining, resp[r].body.tips)

\* A /daily-care request answered after a delivered reading.
Cared(r) == req[r].route = "/daily-care" /\ Done(r) /\ Delivered(r)

\* The plant type of the request is the word, in any letter case.
IsPlant(r, word) ==
  LET p == req[r].json["plant_type"].s
  IN  /\ Len(p) = Len(word)
      /\ \A i \in 1..Len(word) : LowerChar(p[i]) = word[i]

\* C6: care_suggestions of /daily-care is the base tip of the plant type
\* (cactus, fern, other, compared in lower case) followed by at most one
\* follow-up: cactus and humidity > 70, fern and humidity < 50, other and
\* temperature < 10.
C6_PlantRules ==
  \A r \in Slots :
    Cared(r) =>
      LET tips == resp[r].body.care_suggestions
          more == Len(tips) = 2
      IN  /\ Len(tips) \in 1..2
          /\ IsPlant(r, CACTUS) =>
               /\ tips[1] = TipCactus
               /\ more <=> H(r) > 70
               /\ more => tips[2] = TipCactusHumid
          /\ IsPlant(r, FERN) =>
               /\ tips[1] = TipFern
               /\ more <=> H(r) < 50
               /\ more => tips[2] = TipFernDry
          /\ ~IsPlant(r, CACTUS) /\ ~IsPlant(r, FERN) =>
               /\ tips[1] = TipOther
               /\ more <=> T(r) < 10
               /\ more => tips[2] = TipOtherCold

C6_Witness ==
  \E r \in Slots :
    /\ Cared(r)
    /\ req[r].json["plant_type"].s = <<"C","a","c","t","u","s">>
    /\ H(r) = 75
    /\ resp[r].body.care_suggestions = <<TipCactus, TipCactusHumid>>

\* The key is missing from the dict, or its value is None or the empty string.
Blank(d, key) == key \notin DOMAIN d \/ d[key] = PyNone \/ d[key] = PyStr(<<>>)

\* The string sent under a key of a /plant-selector body, "" when the key is
\* missing or null.
Sent(d, key) == IF key \notin DOMAIN d \/ d[key] = PyNone THEN <<>> ELSE d[key].s

\* C7 as stated: /plant-selector never fails; whatever the case of the keys
\* and whether each is known, unknown, missing or null, it answers with the
\* catalog's list under the lower-cased pair, or with the empty list.
C7_LookupNeverFails ==
  \A r \in Slots :
    req[r].route = "/plant-selector" /\ Done(r) =>
      /\ resp[r].kind = "json"
      /\ resp[r].body.recommended_plants =
           Recommended(Lower(Sent(req[r].json, "environment")),
                       Lower(Sent(req[r].json, "preference")))

\* What holds of /plant-selector: the same, for bodies in which no key is null.
C7_LookupOfStrings ==
  \A r \in Slots :
    /\ req[r].route = "/plant-selector"
    /\ Done(r)
    /\ \A k \in DOMAIN req[r].json : req[r].json[k] # PyNone
    => /\ resp[r].kind = "json"
       /\ resp[r].body.recommended_plants =
            Recommended(Lower(Sent(req[r].json, "environment")),
                        Lower(Sent(req[r].json, "preference")))

\* The handler of slot r called the weather provider and got no reading.
FetchFailed(r) == up[r] # NoCall /\ ~Delivered(r)

\* The outcome is a JSON payload with an "error" entry.
ErrorPayload(r) == resp[r].kind = "json" /\ "error" \in DOMAIN resp[r].body

\* C8 as stated: in /watering-alert, /daily-care and /weather every upstream
\* failure ends in an error payload, never in an exception leaving the handler.
C8_UpstreamFailureReported ==
  \A r \in Slots :
    /\ req[r].route \in {"/watering-alert", "/daily-care", "/weather"}
    /\ Done(r)
    /\ FetchFailed(r)
    => ErrorPayload(r)

\* What holds: the same for /watering-alert and /weather.
C8_ReportedOutsideDailyCare ==
  \A r \in Slots :
    /\ req[r].route \in {"/watering-alert", "/weather"}
    /\ Done(r)
    /\ FetchFailed(r)
    => ErrorPayload(r)

NoEntries == [t \in Seconds |-> NoDir]

C9_RejectionWritesNothing ==
  [][\A r \in Slots :
       pc[r] = "idle" /\ pc'[r] = "done" => fs' = fs]_vars

\* ------------------------------------------------- claims on the journal

\* A /plant-journal request with a note has run to its end.
Finished(r) ==
  req[r].route = "/plant-journal" /\ ~Blank(req[r].form, "note") /\ Done(r)

NoteOf(r) == req[r].form.note.s

\* Answered 'Journal entry saved successfully' with its timestamp.
Saved(r) ==
  /\ resp[r].kind = "json"
  /\ resp[r].status = 200
  /\ resp[r].body.message = "Journal entry saved successfully"
  /\ resp[r].body.timestamp = ts[r]

\* note.txt of the entry of second t.
NoteFile(t) == fs[t].files["note.txt"]

\* The text is the shorter of two notes followed by what the longer one has
\* beyond it.
Mixed(text, a, b) ==
  \E short \in {a, b}, long \in {a, b} :
    /\ Len(short) < Len(long)
    /\ text = short \o SubSeq(long, Len(short) + 1, Len(long))

\* Two finished requests.
Pairs == { p \in Slots \X Slots : p[1] # p[2] /\ Finished(p[1]) /\ Finished(p[2]) }

\* C10 as stated: two requests with different notes and one timestamp both
\* answer 'saved' with it and share the directory, whose note.txt then holds
\* one of the two notes; with distinct timestamps each entry holds its own.
C10_OneNoteKept ==
  \A p \in Pairs :
    /\ Saved(p[1]) /\ Saved(p[2])
    /\ fs[ts[p[1]]].exists /\ fs[ts[p[2]]].exists
    /\ ts[p[1]] = ts[p[2]] /\ NoteOf(p[1]) # NoteOf(p[2])
       => NoteFile(ts[p[1]]) \in {NoteOf(p[1]), NoteOf(p[2])}
    /\ ts[p[1]] # ts[p[2]]
       => NoteFile(ts[p[1]]) = NoteOf(p[1]) /\ NoteFile(ts[p[2]]) = NoteOf(p[2])

\* C10 as amended: the same, except that the shared note.txt holds one of the
\* two notes or the shorter note followed by the rest of the longer one.
C10_OneNoteOrMixture ==
  \A p \in Pairs :
    /\ Saved(p[1]) /\ Saved(p[2])
    /\ fs[ts[p[1]]].exists /\ fs[ts[p[2]]].exists
    /\ ts[p[1]] = ts[p[2]] /\ NoteOf(p[1]) # NoteOf(p[2])
       => \/ NoteFile(ts[p[1]]) \in {NoteOf(p[1]), NoteOf(p[2])}
          \/ Mixed(NoteFile(ts[p[1]]), NoteOf(p[1]), NoteOf(p[2]))
    /\ ts[p[1]] # ts[p[2]]
       => NoteFile(ts[p[1]]) = NoteOf(p[1]) /\ NoteFile(ts[p[2]]) = NoteOf(p[2])

C10_Witness ==
  \E p \in Pairs :
    /\ ts[p[1]] = ts[p[2]]
    /\ Saved(p[1]) /\ Saved(p[2])
    /\ NoteFile(ts[p[1]]) \notin {NoteOf(p[1]), NoteOf(p[2])}
    /\ Mixed(NoteFile(ts[p[1]]), NoteOf(p[1]), NoteOf(p[2]))

====
